---- MODULE Spec2Model ----
(***************************************************************************)
(* ChoroplethLayer (region_map/public/choropleth_layer.js) as a state      *)
(* machine: one live layer instance, the feature objects it shares with    *)
(* the instance it was cloned from, its Leaflet layer, its data-load       *)
(* promise, and the events it emits.                                       *)
(***************************************************************************)
EXTENDS Integers, Sequences, FiniteSets, TLC

(***************************************************************************)
(* Bounds of the model.                                                    *)
(***************************************************************************)
\* longest feature collection a fetch returns
MaxFeatures == 2
\* longest metric list handed to setMetrics (JoinSpec)
MaxMetrics == 2
\* longest metric list handed to setMetrics (Spec)
MaxCallMetrics == 1
\* largest metric value
MaxValue == 1
\* how often one feature may be handed to leafletLayer.addData
MaxAdds == 2
\* largest value, min and max handed to getChoroplethColor
MaxColorValue == 5
\* longest colour ramp handed to getChoroplethColor
MaxRampLen == 4

(***************************************************************************)
(* Nullable values: null / undefined is the empty sequence, a value x is   *)
(* the one-element sequence <<x>>.                                         *)
(***************************************************************************)
None == <<>>
Some(x) == <<x>>

\* join fields a caller may select; "null" is the constructor's this._joinField = null
JoinFields == {"id", "name"}
\* values a feature property or a metric term may take
Terms == {"A", "B"}
\* a feature's properties: each join field carries a value or is missing
PropValues == {None} \cup {Some(t) : t \in Terms}
Features == [JoinFields -> PropValues]
\* metric rows { term, value }
MetricRows == [term : Terms, value : 1..MaxValue]
\* the configured vector layers: a URL and the format declared for it
\* (formatType).  "geojson" stands for both formats the layer reads (the
\* executor turns topojson into geojson before it goes on); "csv" is a
\* format the layer does not recognize
Sources ==
  {[url |-> "u1", format |-> "geojson"],
   [url |-> "u2", format |-> "csv"]}
Urls == {src.url : src \in Sources}
\* colour ramps: arrays of colours; the first is the constructor's default
DefaultRamp == <<"c1", "c2", "c3">>
OtherRamp == <<"d1", "d2", "d3">>
ColorRamps == {DefaultRamp, OtherRamp}
LineWeights == {1, 2}

SeqsUpTo(S, n) == UNION {[1..k -> S] : k \in 0..n}
FeatureCollections == SeqsUpTo(Features, MaxFeatures)
\* metric lists whose rows differ in their terms only
TermLists == SeqsUpTo([term : Terms, value : {1}], MaxMetrics)

Range(s) == {s[i] : i \in 1..Len(s)}
Max(S) == CHOOSE x \in S : \A y \in S : y <= x
Min(S) == CHOOSE x \in S : \A y \in S : x <= y

(***************************************************************************)
(* An object key: JavaScript turns the property value used as a key of     *)
(* this._featureDict into a string; a missing property gives "undefined".  *)
(***************************************************************************)
ToKey(v) == IF v = None THEN "undefined" ELSE v[1]
\* _feature.properties[this._joinField]
JoinValue(feature, joinField) == feature[joinField]

(***************************************************************************)
(* getMinMax, getChoroplethColor                                           *)
(***************************************************************************)
getMinMax(data) ==
  [min |-> Min({data[i].value : i \in 1..Len(data)}),
   max |-> Max({data[i].value : i \in 1..Len(data)})]

\* Math.floor(num / den) for den > 0
FloorDiv(num, den) == num \div den

\* Math.round(num / den) for den > 0: halves round up
RoundDiv(num, den) == (2 * num + den) \div (2 * den)

\* getChoroplethColor returning the first colour of the ramp when min === max
getChoroplethColorFirstOnTie(value, min, max, colorRamp) ==
  IF min = max
  THEN colorRamp[1]
  ELSE LET index == RoundDiv(Len(colorRamp) * (value - min), max - min) - 1
           i == Max({Min({Len(colorRamp) - 1, index}), 0})
       IN colorRamp[i + 1]

getChoroplethColor(value, min, max, colorRamp) ==
  IF min = max
  THEN colorRamp[(Len(colorRamp) - 1) + 1]
  ELSE LET index == RoundDiv(Len(colorRamp) * (value - min), max - min) - 1
           i == Max({Min({Len(colorRamp) - 1, index}), 0})
       IN colorRamp[i + 1]

(***************************************************************************)
(* compareLexicographically: None is the false it returns for a null or    *)
(* undefined term, Some(n) the number localeCompare returns.               *)
(***************************************************************************)
\* the place of a term in the collation order
TermRank == [t \in Terms |-> IF t = "A" THEN 1 ELSE 2]
localeCompare(a, b) ==
  IF TermRank[a] < TermRank[b] THEN -1 ELSE IF TermRank[a] > TermRank[b] THEN 1 ELSE 0

compareLexicographically(termA, termB) ==
  IF termA = None \/ termB = None THEN None
  ELSE Some(localeCompare(termA[1], termB[1]))

(***************************************************************************)
(* The state.  A context c holds the fields of the live ChoroplethLayer    *)
(* (LayerFields), the suspended promise executor (executor) and what the   *)
(* last call did (ObsFields); the operators below take a context and give  *)
(* the context after the method ran.                                       *)
(*   featureCollection  the array of feature objects (their properties)    *)
(*   kbnJoinedMetric    feature i's __kbnJoinedMetric: None (null or       *)
(*                      undefined) or Some(metric row)                     *)
(*   featureDict        key -> index of the feature it maps to, 0 = no     *)
(*                      entry for that key                                 *)
(*   leafletData        how many Leaflet layers addData made of feature i  *)
(*   leafletStyle       the style setStyle last gave feature i's layers    *)
(*   whenDataLoaded     the promise: its state and how often resolve ran   *)
(***************************************************************************)
Keys == Terms \cup {"undefined"}
EmptyDict == [k \in Keys |-> 0]

LayerFields ==
  {"metrics", "metricsAgg", "joinField", "colorRamp", "lineWeight", "boundsOfData",
   "featureCollection", "kbnJoinedMetric", "featureDict", "toRender", "prevKeys",
   "showAllShapes", "geojsonUrl", "leafletData", "leafletStyle", "loaded", "error",
   "isJoinValid", "legendColors", "legendQuantizer", "whenDataLoaded"}
\* What a call did (reset when the next call starts):
\*   raised      the call threw
\*   emitted     the payload (mismatches) of the styleChanged it emitted
\*   toast       the danger toast it showed: "none", "404" or "cors"
\*   joinRan     it completed a join pass
\*   joinResult  the joinResult of its _setStyle
\*   cloned      it was cloneChoroplethLayerForNewData and returned the clone
\* and what is remembered of this layer instance:
\*   matched     the features the most recent join pass gave a metric
\*   everEmitted a styleChanged was emitted
\*   rearmed     enableRendering ended a disabled period and no call has
\*               changed join field, metrics, colour ramp or line weight since
\*   fetched     how the awaited fetch ended: None while it has not, else
\*               Some([ok, known]): the fetch succeeded, the declared format
\*               was geojson or topojson
CallFields == {"raised", "emitted", "toast", "joinRan", "joinResult", "cloned"}
ObsFields == CallFields \cup {"matched", "everEmitted", "rearmed", "fetched"}

Restrict(c, F) == [f \in F |-> c[f]]

\* what a call has done so far: nothing
NoObs ==
  [raised |-> FALSE, emitted |-> None, toast |-> "none", joinRan |-> FALSE,
   cloned |-> FALSE,
   joinResult |-> [features |-> <<>>, mismatches |-> <<>>], matched |-> {},
   everEmitted |-> FALSE, rearmed |-> FALSE, fetched |-> None]

Zeros(n) == [i \in 1..n |-> 0]
Nones(n) == [i \in 1..n |-> None]

(***************************************************************************)
(* _invalidateJoin, _clearPrevFeatures, _innerJoin, _leftOuterJoin         *)
(***************************************************************************)
invalidateJoin(c) == [c EXCEPT !.isJoinValid = FALSE]

\* forEach over _prevKeys; a key with no entry in _featureDict makes
\* this._featureDict[key].__kbnJoinedMetric = null a TypeError, which leaves
\* the keys before it cleared and _prevKeys as it was.
clearPrevFeatures(c) ==
  LET missing == {i \in 1..Len(c.prevKeys) : c.featureDict[c.prevKeys[i]] = 0}
      stop == IF missing = {} THEN Len(c.prevKeys) + 1 ELSE Min(missing)
      cleared == {c.featureDict[c.prevKeys[i]] : i \in 1..(stop - 1)}
      joined == [i \in 1..Len(c.kbnJoinedMetric) |->
                   IF i \in cleared THEN None ELSE c.kbnJoinedMetric[i]]
  IN IF missing = {}
     THEN [c EXCEPT !.kbnJoinedMetric = joined, !.prevKeys = <<>>]
     ELSE [c EXCEPT !.kbnJoinedMetric = joined, !.raised = TRUE]

RECURSIVE innerJoinLoop(_, _)
innerJoinLoop(c, i) ==
  IF i < 1 THEN c
  ELSE LET keyTerm == c.metrics[1][i].term
           feature == c.featureDict[keyTerm]
       IN IF feature # 0
          THEN innerJoinLoop(
                 [c EXCEPT !.kbnJoinedMetric[feature] = Some(c.metrics[1][i]),
                           !.joinResult.features = Append(@, feature),
                           !.prevKeys = Append(@, keyTerm),
                           !.matched = @ \cup {feature}], i - 1)
          ELSE innerJoinLoop(
                 [c EXCEPT !.joinResult.mismatches = Append(@, keyTerm)], i - 1)

\* _innerJoin with its loop starting one row early (length - 2)
innerJoinSkippingLastRow(c) ==
  LET c0 == [c EXCEPT !.matched = {},
                      !.joinResult = [features |-> <<>>, mismatches |-> <<>>]]
      c1 == clearPrevFeatures(c0)
  IN IF c1.raised THEN c1
     ELSE IF c1.metrics = None THEN c1
     ELSE [innerJoinLoop(c1, Len(c1.metrics[1]) - 1) EXCEPT
             !.isJoinValid = TRUE, !.joinRan = TRUE]

innerJoin(c) ==
  LET c0 == [c EXCEPT !.matched = {},
                      !.joinResult = [features |-> <<>>, mismatches |-> <<>>]]
      c1 == clearPrevFeatures(c0)
  IN IF c1.raised THEN c1
     ELSE IF c1.metrics = None THEN c1
     ELSE [innerJoinLoop(c1, Len(c1.metrics[1])) EXCEPT
             !.isJoinValid = TRUE, !.joinRan = TRUE]

RECURSIVE leftOuterJoinLoop(_, _)
leftOuterJoinLoop(c, i) ==
  IF i > Len(c.metrics[1]) THEN c
  ELSE LET keyTerm == c.metrics[1][i].term
           feature == c.featureDict[keyTerm]
       IN IF feature # 0
          THEN leftOuterJoinLoop(
                 [c EXCEPT !.kbnJoinedMetric[feature] = Some(c.metrics[1][i]),
                           !.matched = @ \cup {feature}], i + 1)
          ELSE leftOuterJoinLoop(
                 [c EXCEPT !.joinResult.mismatches = Append(@, keyTerm)], i + 1)

\* _leftOuterJoin without the forEach that resets __kbnJoinedMetric
leftOuterJoinWithoutReset(c) ==
  LET c0 == [c EXCEPT !.matched = {},
                      !.joinResult = [features |-> <<>>, mismatches |-> <<>>]]
      c1 == leftOuterJoinLoop(c0, 1)
  IN [c1 EXCEPT !.isJoinValid = TRUE, !.joinRan = TRUE,
                !.joinResult.features = [i \in 1..Len(c.featureCollection) |-> i]]

leftOuterJoin(c) ==
  LET c0 == [c EXCEPT !.matched = {},
                      !.joinResult = [features |-> <<>>, mismatches |-> <<>>],
                      !.kbnJoinedMetric = Nones(Len(c.featureCollection))]
      c1 == leftOuterJoinLoop(c0, 1)
  IN [c1 EXCEPT !.isJoinValid = TRUE, !.joinRan = TRUE,
                !.joinResult.features = [i \in 1..Len(c.featureCollection) |-> i]]

(***************************************************************************)
(* _makeEmptyStyleFunction, _makeChoroplethStyler, _setStyle               *)
(***************************************************************************)
\* EMPTY_STYLE with the line weight of the moment the function is made
makeEmptyStyleFunction(c) == [fillColor |-> "none", weight |-> c.lineWeight]

\* the style leafletStyleFunction gives feature i
makeChoroplethStyler(c, i) ==
  IF Len(c.metrics[1]) = 0 THEN makeEmptyStyleFunction(c)
  ELSE LET mm == getMinMax(c.metrics[1])
           match == c.kbnJoinedMetric[i]
       IN IF match = None THEN makeEmptyStyleFunction(c)
          ELSE [fillColor |-> getChoroplethColor(match[1].value, mm.min, mm.max, c.colorRamp),
                weight |-> c.lineWeight]

\* styler.getLeafletBounds(): the features whose bounds the style function
\* added while Leaflet styled its layers; None when there are none
getLeafletBounds(c) ==
  LET styled == {i \in 1..Len(c.featureCollection) :
                   c.leafletData[i] > 0 /\ c.kbnJoinedMetric[i] # None}
  IN IF Len(c.metrics[1]) = 0 \/ styled = {} THEN None ELSE Some(styled)

\* this._leafletLayer.addData({ type: 'FeatureCollection', features })
addData(c, features) ==
  [c EXCEPT !.leafletData =
     [i \in 1..Len(c.leafletData) |->
        c.leafletData[i] + Cardinality({k \in 1..Len(features) : features[k] = i})]]

\* this._leafletLayer.setStyle(styler.leafletStyleFunction)
leafletSetStyle(c) ==
  [c EXCEPT !.leafletStyle =
     [i \in 1..Len(c.leafletData) |->
        IF c.leafletData[i] > 0 THEN Some(makeChoroplethStyler(c, i)) ELSE None]]

\* the legend colours and the domain of the legend quantizer
setLegend(c) ==
  IF c.metrics # None /\ Len(c.metrics[1]) > 0
  THEN LET mm == getMinMax(c.metrics[1])
       IN [c EXCEPT !.legendColors = Some(c.colorRamp),
                    !.legendQuantizer =
                      Some(IF mm.min # mm.max THEN <<mm.min, mm.max>> ELSE <<0, 1>>)]
  ELSE c

\* the guard of _setStyle as it would be without the _toRender test
nothingToStyleIgnoringToRender(c) ==
  c.error \/ (~c.loaded \/ c.metrics = None \/ c.joinField = "null")

\* the guard of _setStyle also returning when the metrics are an empty array
nothingToStyleOnEmptyMetrics(c) ==
  c.error \/ (~c.loaded \/ c.metrics = None \/ c.metrics = Some(<<>>)
              \/ c.joinField = "null" \/ ~c.toRender)

\* the guard of _setStyle as it would be without the _error test
nothingToStyleIgnoringError(c) ==
  ~c.loaded \/ c.metrics = None \/ c.joinField = "null" \/ ~c.toRender

\* the guard of _setStyle: true when it returns at once
nothingToStyle(c) ==
  c.error \/ (~c.loaded \/ c.metrics = None \/ c.joinField = "null" \/ ~c.toRender)

setStyle(c) ==
  IF nothingToStyle(c)
  THEN c
  ELSE LET entry == [c EXCEPT !.joinResult = [features |-> <<>>, mismatches |-> <<>>]]
           joinedC == IF ~entry.isJoinValid
                      THEN (IF entry.showAllShapes THEN leftOuterJoin(entry)
                                                   ELSE innerJoin(entry))
                      ELSE entry
       IN IF joinedC.raised THEN joinedC
          ELSE LET added == IF ~entry.isJoinValid
                            THEN addData(joinedC, joinedC.joinResult.features)
                            ELSE joinedC
                   styledC == setLegend(leafletSetStyle(added))
               IN [styledC EXCEPT !.boundsOfData = getLeafletBounds(styledC),
                                  !.emitted = Some(styledC.joinResult.mismatches),
                                  !.everEmitted = TRUE]

(***************************************************************************)
(* _setFeatureDict, setJoinField, setMetrics, setColorRamp, setLineWeight, *)
(* disableRendering, enableRendering                                       *)
(***************************************************************************)
\* _setFeatureDict keeping the first feature of a key instead of the last
setFeatureDictFirstWins(c) ==
  IF c.joinField = "null" THEN c
  ELSE LET keyOf(i) == ToKey(JoinValue(c.featureCollection[i], c.joinField))
           dict == [k \in Keys |->
                      LET S == {i \in 1..Len(c.featureCollection) : keyOf(i) = k}
                      IN IF S = {} THEN 0 ELSE Min(S)]
       IN invalidateJoin([c EXCEPT !.featureDict = dict])

setFeatureDict(c) ==
  IF c.joinField = "null" THEN c
  ELSE LET keyOf(i) == ToKey(JoinValue(c.featureCollection[i], c.joinField))
           dict == [k \in Keys |->
                      LET S == {i \in 1..Len(c.featureCollection) : keyOf(i) = k}
                      IN IF S = {} THEN 0 ELSE Max(S)]
       IN invalidateJoin([c EXCEPT !.featureDict = dict])

setJoinField(c, joinfield) ==
  IF joinfield = c.joinField THEN c
  ELSE setStyle(setFeatureDict([c EXCEPT !.joinField = joinfield, !.rearmed = FALSE]))

setMetrics(c, metrics) ==
  setStyle(invalidateJoin([c EXCEPT !.metrics = Some(metrics), !.metricsAgg = "agg",
                                    !.rearmed = FALSE]))

\* setColorRamp invalidating the join before it re-styles
setColorRampInvalidating(c, colorRamp) ==
  IF colorRamp = c.colorRamp THEN c
  ELSE setStyle(invalidateJoin([c EXCEPT !.colorRamp = colorRamp, !.rearmed = FALSE]))

setColorRamp(c, colorRamp) ==
  IF colorRamp = c.colorRamp THEN c
  ELSE setStyle([c EXCEPT !.colorRamp = colorRamp, !.rearmed = FALSE])

setLineWeight(c, lineWeight) ==
  IF c.lineWeight = lineWeight THEN c
  ELSE setStyle([c EXCEPT !.lineWeight = lineWeight, !.rearmed = FALSE])

disableRendering(c) == [c EXCEPT !.toRender = FALSE, !.rearmed = FALSE]
enableRendering(c) == [c EXCEPT !.toRender = TRUE, !.rearmed = @ \/ ~c.toRender]

(***************************************************************************)
(* The function setTooltipFormatter installs: the metric row (match) it    *)
(* hands to the formatter for feature i, None when find returns undefined  *)
(* or the metrics are not set.                                             *)
(***************************************************************************)
tooltipMatch(c, i) ==
  IF c.metrics = None THEN None
  ELSE LET value == IF c.joinField = "null" THEN None
                    ELSE JoinValue(c.featureCollection[i], c.joinField)
           found == {k \in 1..Len(c.metrics[1]) :
                       compareLexicographically(Some(c.metrics[1][k].term), value) = Some(0)}
       IN IF found = {} THEN None ELSE Some(c.metrics[1][Min(found)])

(***************************************************************************)
(* canReuseInstanceForNewMetrics: "true", "false" or "undefined"           *)
(***************************************************************************)
Bool(b) == IF b THEN "true" ELSE "false"
TermsOf(metrics) == [i \in 1..Len(metrics) |-> metrics[i].term]

canReuseInstanceForNewMetrics(c, geojsonUrl, showAllShapes, newMetrics) ==
  IF c.geojsonUrl # geojsonUrl THEN "false"
  ELSE IF showAllShapes THEN Bool(c.showAllShapes = showAllShapes)
  ELSE IF c.metrics = None THEN "undefined"
  ELSE Bool(TermsOf(c.metrics[1]) = TermsOf(newMetrics))

(***************************************************************************)
(* The constructor and the executor of this._whenDataLoaded                *)
(***************************************************************************)
resolve(c) ==
  [c EXCEPT !.whenDataLoaded =
     [state |-> IF @.state = "pending" THEN "resolved" ELSE @.state,
      resolves |-> @.resolves + 1]]

\* the catch block without its resolve()
catchLoadErrorWithoutResolve(c, status) ==
  [c EXCEPT !.loaded = TRUE, !.error = TRUE, !.raised = FALSE,
            !.toast = IF status = 404 THEN "404" ELSE "cors"]

\* the catch block: the flags, the toast, resolve()
catchLoadError(c, status) ==
  resolve([c EXCEPT !.loaded = TRUE, !.error = TRUE, !.raised = FALSE,
                    !.toast = IF status = 404 THEN "404" ELSE "cors"])

\* the executor from this._loaded = true on
finishLoad(c) ==
  LET c1 == setStyle([c EXCEPT !.loaded = TRUE])
  IN IF c1.raised THEN catchLoadError(c1, 0) ELSE resolve(c1)

\* the executor without its call of _setFeatureDict
dataLoadedWithoutIndex(c, result) ==
  LET formatType == c.executor[1]
      c0 == [c EXCEPT !.executor = None,
                      !.fetched = Some([ok |-> result.ok,
                                        known |-> formatType \in {"geojson", "topojson"}])]
  IN IF ~result.ok THEN catchLoadError(c0, result.status)
     ELSE IF formatType \notin {"geojson", "topojson"} THEN catchLoadError(c0, 0)
     ELSE finishLoad(
            [c0 EXCEPT !.featureCollection = result.features,
                       !.kbnJoinedMetric = Nones(Len(result.features)),
                       !.leafletData = Zeros(Len(result.features)),
                       !.leafletStyle = Nones(Len(result.features))])

\* the executor after the awaited ajax call settled with result
dataLoaded(c, result) ==
  LET formatType == c.executor[1]
      c0 == [c EXCEPT !.executor = None,
                      !.fetched = Some([ok |-> result.ok,
                                        known |-> formatType \in {"geojson", "topojson"}])]
  IN IF ~result.ok THEN catchLoadError(c0, result.status)
     ELSE IF formatType \notin {"geojson", "topojson"} THEN catchLoadError(c0, 0)
     ELSE finishLoad(setFeatureDict(
            [c0 EXCEPT !.featureCollection = result.features,
                       !.kbnJoinedMetric = Nones(Len(result.features)),
                       !.leafletData = Zeros(Len(result.features)),
                       !.leafletStyle = Nones(Len(result.features))]))

\* new ChoroplethLayer(geojsonUrl, attribution, format, showAllShapes, meta,
\*                     features, featureDict, toRender); joined is the
\* __kbnJoinedMetric the handed-over feature objects carry
construct(obs, geojsonUrl, format, showAllShapes, features, joined, featureDict, toRender) ==
  LET c == obs @@
           [metrics |-> None, metricsAgg |-> "undefined", joinField |-> "null",
            colorRamp |-> DefaultRamp, lineWeight |-> 1, boundsOfData |-> None,
            featureCollection |-> features, kbnJoinedMetric |-> joined,
            featureDict |-> featureDict, toRender |-> toRender, prevKeys |-> <<>>,
            showAllShapes |-> showAllShapes, geojsonUrl |-> geojsonUrl,
            leafletData |-> Zeros(Len(features)), leafletStyle |-> Nones(Len(features)),
            loaded |-> FALSE, error |-> FALSE, isJoinValid |-> FALSE,
            legendColors |-> None, legendQuantizer |-> None,
            whenDataLoaded |-> [state |-> "pending", resolves |-> 0],
            executor |-> None]
  IN IF Len(features) = 0
     THEN [c EXCEPT !.executor = Some(format)]
     ELSE finishLoad(c)

(***************************************************************************)
(* cloneChoroplethLayerForNewData: the caller drops this layer and keeps   *)
(* the clone, so the clone becomes the live layer (when the call raises,   *)
(* the old layer stays).                                                   *)
(***************************************************************************)
\* cloneChoroplethLayerForNewData without the url === this._geojsonUrl test
cloneHandingOverForAnyUrl(c, url, format, showAllData, toRender) ==
  LET old == clearPrevFeatures(c)
      n0 == construct(Restrict(old, CallFields) @@ NoObs,
                      url, format, showAllData,
                      old.featureCollection, old.kbnJoinedMetric, old.featureDict,
                      toRender)
      n1 == setJoinField(n0, c.joinField)
      n2 == setColorRamp(n1, c.colorRamp)
      n3 == setLineWeight(n2, c.lineWeight)
      n4 == IF c.metrics # None /\ c.metricsAgg # "undefined"
            THEN setMetrics(n3, c.metrics[1]) ELSE n3
  IN IF old.raised THEN old ELSE [enableRendering(n4) EXCEPT !.cloned = TRUE]

cloneChoroplethLayerForNewData(c, url, format, showAllData, toRender) ==
  LET same == url = c.geojsonUrl
      old == IF same THEN clearPrevFeatures(c) ELSE c
      n0 == construct(Restrict(old, CallFields) @@ NoObs,
                      url, format, showAllData,
                      IF same THEN old.featureCollection ELSE <<>>,
                      IF same THEN old.kbnJoinedMetric ELSE <<>>,
                      IF same THEN old.featureDict ELSE EmptyDict,
                      toRender)
      n1 == setJoinField(n0, c.joinField)
      n2 == setColorRamp(n1, c.colorRamp)
      n3 == setLineWeight(n2, c.lineWeight)
      n4 == IF c.metrics # None /\ c.metricsAgg # "undefined"
            THEN setMetrics(n3, c.metrics[1]) ELSE n3
  IN IF old.raised THEN old ELSE [enableRendering(n4) EXCEPT !.cloned = TRUE]

(***************************************************************************)
(* The specification                                                       *)
(***************************************************************************)
\* call: the last call of a function that is no method of the layer, its
\* arguments and what it returned
VARIABLES layer, executor, obs, call
vars == <<layer, executor, obs, call>>

\* no such call was made
NoCall == [fn |-> "none"]

\* the context of a call named op
Ctx == layer @@ [executor |-> executor] @@ Restrict(NoObs, CallFields) @@ obs

Bounded(c) == \A i \in 1..Len(c.leafletData) : c.leafletData[i] <= MaxAdds

Becomes(c) ==
  /\ Bounded(c)
  /\ layer' = Restrict(c, LayerFields)
  /\ executor' = c.executor
  /\ obs' = Restrict(c, ObsFields)
  /\ call' = call

\* what the awaited ajax call can settle with, for the collections in colls
FetchResults(colls) ==
  {[ok |-> TRUE, status |-> 200, features |-> fc] : fc \in colls}
  \cup {[ok |-> FALSE, status |-> st, features |-> <<>>] : st \in {404, 500}}

Starts(c) ==
  /\ layer = Restrict(c, LayerFields)
  /\ executor = c.executor
  /\ obs = Restrict(c, ObsFields)
  /\ call = NoCall

(***************************************************************************)
(* Spec: every operation of the layer, over a small universe of data.      *)
(***************************************************************************)
\* the files a fetch may return
SampleCollections == {<<>>, <<[id |-> Some("A"), name |-> Some("B")]>>}
\* the metric lists a caller passes
SampleMetricLists == SeqsUpTo(MetricRows, MaxCallMetrics)

Init ==
  \E src \in Sources, showAllShapes \in BOOLEAN, toRender \in BOOLEAN :
    Starts(construct(NoObs, src.url, src.format, showAllShapes, <<>>, <<>>, EmptyDict,
                     toRender))

SetJoinField ==
  /\ \E f \in JoinFields : Becomes(setJoinField(Ctx, f))
SetMetrics ==
  /\ \E m \in SampleMetricLists : Becomes(setMetrics(Ctx, m))
SetColorRamp ==
  /\ \E r \in ColorRamps : Becomes(setColorRamp(Ctx, r))
SetLineWeight ==
  /\ \E w \in LineWeights : Becomes(setLineWeight(Ctx, w))
DisableRendering ==
  /\ Becomes(disableRendering(Ctx))
EnableRendering ==
  /\ Becomes(enableRendering(Ctx))
DataLoaded ==
  /\ executor # None
  /\ \E result \in FetchResults(SampleCollections) : Becomes(dataLoaded(Ctx, result))
Clone ==
  /\ \E src \in Sources, showAllData \in BOOLEAN, toRender \in BOOLEAN :
       Becomes(cloneChoroplethLayerForNewData(Ctx, src.url, src.format, showAllData, toRender))

Next ==
  \/ SetJoinField
  \/ SetMetrics
  \/ SetColorRamp
  \/ SetLineWeight
  \/ DisableRendering
  \/ EnableRendering
  \/ DataLoaded
  \/ Clone

Spec == Init /\ [][Next]_vars

(***************************************************************************)
(* JoinSpec: a layer with rendering enabled that loads any feature         *)
(* collection and is given any join field and any metric list.             *)
(***************************************************************************)
JoinInit ==
  \E showAllShapes \in BOOLEAN :
    Starts(construct(NoObs, "u1", "geojson", showAllShapes, <<>>, <<>>, EmptyDict, TRUE))

JoinSetJoinField ==
  /\ \E f \in JoinFields : Becomes(setJoinField(Ctx, f))
JoinSetMetrics ==
  /\ \E m \in TermLists : Becomes(setMetrics(Ctx, m))
JoinDataLoaded ==
  /\ executor # None
  /\ \E result \in FetchResults(FeatureCollections) : Becomes(dataLoaded(Ctx, result))

JoinNext ==
  \/ JoinSetJoinField
  \/ JoinSetMetrics
  \/ JoinDataLoaded

JoinSpec == JoinInit /\ [][JoinNext]_vars

(***************************************************************************)
(* ColorSpec: getMinMax and getChoroplethColor called on any arguments.    *)
(***************************************************************************)
\* colour ramps of every length from 1, their colours all different (a
\* colour is named by its place in the ramp)
Ramps == {[i \in 1..n |-> i] : n \in 1..MaxRampLen}
ColorValues == 0..MaxColorValue
\* the non-empty metric arrays getMinMax is called on
ColorData == {<<[term |-> "A", value |-> v]>> : v \in ColorValues}
             \cup {<<[term |-> "A", value |-> v], [term |-> "B", value |-> w]>> :
                     v \in ColorValues, w \in ColorValues}

\* a layer that is left alone
Idle ==
  Starts(construct(NoObs, "u1", "geojson", FALSE, <<>>, <<>>, EmptyDict, TRUE))

ColorInit == Idle

GetMinMax ==
  /\ \E data \in ColorData :
       call' = [fn |-> "getMinMax", data |-> data, result |-> getMinMax(data)]
  /\ UNCHANGED <<layer, executor, obs>>

GetChoroplethColor ==
  /\ \E value \in ColorValues, min \in ColorValues, max \in ColorValues,
        colorRamp \in Ramps :
       /\ min <= max
       /\ call' = [fn |-> "getChoroplethColor", value |-> value, min |-> min,
                   max |-> max, colorRamp |-> colorRamp,
                   result |-> getChoroplethColor(value, min, max, colorRamp)]
  /\ UNCHANGED <<layer, executor, obs>>

ColorNext ==
  \/ GetMinMax
  \/ GetChoroplethColor

ColorSpec == ColorInit /\ [][ColorNext]_vars

(***************************************************************************)
(* OrderSpec: a layer with rendering enabled on which setJoinField(f),     *)
(* setMetrics(m) and the completion of a successful load happen once each, *)
(* in any order; call.order lists them in the order they happened.         *)
(***************************************************************************)
Fresh(showAllShapes) ==
  construct(NoObs, "u1", "geojson", showAllShapes, <<>>, <<>>, EmptyDict, TRUE)

\* c as the next call finds it
NextCall(c) == Restrict(NoObs, CallFields) @@ c

OrderInit ==
  \E showAllShapes \in BOOLEAN, f \in JoinFields, m \in TermLists,
     fc \in FeatureCollections :
    /\ layer = Restrict(Fresh(showAllShapes), LayerFields)
    /\ executor = Fresh(showAllShapes).executor
    /\ obs = Restrict(Fresh(showAllShapes), ObsFields)
    /\ call = [fn |-> "interleaving", joinfield |-> f, metrics |-> m,
               result |-> [ok |-> TRUE, status |-> 200, features |-> fc],
               order |-> <<>>]

Happens(op, c) ==
  /\ op \notin Range(call.order)
  /\ Bounded(c)
  /\ layer' = Restrict(c, LayerFields)
  /\ executor' = c.executor
  /\ obs' = Restrict(c, ObsFields)
  /\ call' = [call EXCEPT !.order = Append(@, op)]

OrderSetJoinField ==
  /\ Happens("setJoinField", setJoinField(Ctx, call.joinfield))
OrderSetMetrics ==
  /\ Happens("setMetrics", setMetrics(Ctx, call.metrics))
OrderDataLoaded ==
  /\ Happens("dataLoaded", dataLoaded(Ctx, call.result))

OrderNext ==
  \/ OrderSetJoinField
  \/ OrderSetMetrics
  \/ OrderDataLoaded

OrderSpec == OrderInit /\ [][OrderNext]_vars

(***************************************************************************)
(* wrapRequest (beats_management/server/utils/wrap_request.ts)             *)
(***************************************************************************)
\* req.headers.authorization: undefined (no such header), null or a string
AuthValues ==
  {[kind |-> "undefined", text |-> ""], [kind |-> "null", text |-> ""],
   [kind |-> "string", text |-> ""], [kind |-> "string", text |-> "Basic dXNlcg=="]}
Headers == [authorization : AuthValues, accept : {"json", "html"}]
Requests ==
  [params : {"beat1", "beat2"}, payload : {"none", "body"}, query : {"", "?a=1"},
   info : {"local", "remote"}, headers : Headers]

\* wrapRequest testing headers.authorization !== null
wrapRequestStrictNull(req) ==
  LET isAuthenticated == req.headers.authorization.kind # "null"
  IN [user |-> IF isAuthenticated
               THEN [kind |-> "authenticated", internalAuthData |-> req.headers]
               ELSE [kind |-> "unauthenticated"],
      headers |-> req.headers, info |-> req.info, params |-> req.params,
      payload |-> req.payload, query |-> req.query]

wrapRequest(req) ==
  LET isAuthenticated == req.headers.authorization.kind \notin {"null", "undefined"}
  IN [user |-> IF isAuthenticated
               THEN [kind |-> "authenticated", internalAuthData |-> req.headers]
               ELSE [kind |-> "unauthenticated"],
      headers |-> req.headers, info |-> req.info, params |-> req.params,
      payload |-> req.payload, query |-> req.query]

WrapInit == Idle

\* a call wrapRequest(req): given is req before the call, req is req after it
WrapRequest ==
  /\ \E req \in Requests :
       call' = [fn |-> "wrapRequest", given |-> req, req |-> req,
                result |-> wrapRequest(req)]
  /\ UNCHANGED <<layer, executor, obs>>

WrapNext ==
  \/ WrapRequest

WrapSpec == WrapInit /\ [][WrapNext]_vars

(***************************************************************************)
(* The claims                                                              *)
(***************************************************************************)
FeatureIds == 1..Len(layer.featureCollection)
\* the join-key value of feature i as an object key
KeyOf(i) == ToKey(JoinValue(layer.featureCollection[i], layer.joinField))
\* the terms of the current metrics
CurrentTerms == Range(TermsOf(layer.metrics[1]))
\* loaded without error, join field set, metrics set, rendering enabled
LoadedOk == layer.loaded /\ ~layer.error
AllFour == LoadedOk /\ layer.joinField # "null" /\ layer.metrics # None /\ layer.toRender

\* C1: after any sequence of calls that returned, a feature of the feature
\* collection has a non-null __kbnJoinedMetric if and only if the most recent
\* join pass of the layer matched it; no feature keeps a joined metric of an
\* earlier join.
C1_JoinedIffMatched ==
  ~obs.raised =>
    \A i \in FeatureIds : (layer.kbnJoinedMetric[i] # None) <=> (i \in obs.matched)

\* C2: on a loaded layer with rendering enabled no call raises.
C2_NoCallRaises == (LoadedOk /\ layer.toRender) => ~obs.raised

\* C3: while the join is valid, the Leaflet layer holds exactly the feature
\* list of the most recent join, each feature once: the matched features in
\* inner mode, the whole feature collection in left-outer mode.
C3_RenderedIsLastJoin ==
  (layer.isJoinValid /\ ~obs.raised) =>
    \A i \in FeatureIds :
      layer.leafletData[i] =
        IF layer.showAllShapes \/ i \in obs.matched THEN 1 ELSE 0

\* C4: the payload of every styleChanged event is the list of the terms of
\* the current metrics that have no feature in the current feature index.
C4_PayloadIsUnmatchedTerms ==
  obs.emitted # None =>
    Range(obs.emitted[1]) = {t \in CurrentTerms : layer.featureDict[t] = 0}

\* C5: canReuseInstanceForNewMetrics(url, showAllShapes, newMetrics) is truthy
\* if and only if url and showAllShapes equal the layer's and either
\* showAllShapes is true or the terms of newMetrics are, in order, the terms
\* of the layer's current metrics (no current metrics: falsy).
C5_ReuseIffSameSourceFlagAndTerms ==
  \A url \in Urls, showAllShapes \in BOOLEAN, newMetrics \in SampleMetricLists :
    (canReuseInstanceForNewMetrics(layer, url, showAllShapes, newMetrics) = "true")
    <=> /\ url = layer.geojsonUrl
        /\ showAllShapes = layer.showAllShapes
        /\ \/ showAllShapes
           \/ /\ layer.metrics # None
              /\ TermsOf(layer.metrics[1]) = TermsOf(newMetrics)

\* the index keys of the current feature collection under the current join field
IndexKeys == {KeyOf(i) : i \in FeatureIds}
\* feature i is the last feature of the collection carrying its join-key value
IsLastWithKey(i) == \A j \in FeatureIds : j > i => KeyOf(j) # KeyOf(i)
\* the last call completed a left-outer / an inner join pass
AfterLeftOuterJoin == obs.joinRan /\ layer.showAllShapes
AfterInnerJoin == obs.joinRan /\ ~layer.showAllShapes
\* the terms of the current metrics, in order, that are no index key
AbsentTerms == SelectSeq(TermsOf(layer.metrics[1]), LAMBDA t : t \notin IndexKeys)

\* C6 as claimed: the left-outer join returns every feature of the collection,
\* a feature has a joined metric if and only if its join-key value occurs
\* among the metric terms, and the unmatched terms are the metric terms
\* absent from the index.
C6_LeftOuterJoinMatchesEveryKey ==
  AfterLeftOuterJoin =>
    /\ obs.joinResult.features = [i \in FeatureIds |-> i]
    /\ \A i \in FeatureIds :
         (layer.kbnJoinedMetric[i] # None) <=> (KeyOf(i) \in CurrentTerms)
    /\ obs.joinResult.mismatches = AbsentTerms

\* C6 as amended: the left-outer join returns every feature of the collection,
\* a feature has a joined metric if and only if its join-key value occurs
\* among the metric terms and no later feature of the collection carries the
\* same value, and the unmatched terms are the metric terms absent from the
\* index.
C6_LeftOuterJoinMatchesLastOfKey ==
  AfterLeftOuterJoin =>
    /\ obs.joinResult.features = [i \in FeatureIds |-> i]
    /\ \A i \in FeatureIds :
         (layer.kbnJoinedMetric[i] # None)
         <=> (KeyOf(i) \in CurrentTerms /\ IsLastWithKey(i))
    /\ obs.joinResult.mismatches = AbsentTerms

\* a left-outer join over two features with the same join-key value, which is
\* a metric term, and with an unmatched term
C6_Witness ==
  /\ AfterLeftOuterJoin
  /\ obs.joinResult.mismatches # <<>>
  /\ \E i, j \in FeatureIds :
       /\ i < j /\ KeyOf(i) = KeyOf(j) /\ KeyOf(i) \in CurrentTerms
       /\ layer.kbnJoinedMetric[i] = None /\ layer.kbnJoinedMetric[j] # None

\* C7: every feature the inner join returns carries a metric row of its own
\* join-key value, and the join partitions the metric terms: a term is the
\* join-key of a returned feature iff it is an index key, and an unmatched
\* term iff it is not.
C7_InnerJoinPartitionsTerms ==
  AfterInnerJoin =>
    LET drawn == obs.joinResult.features
        matchedKeys == {KeyOf(drawn[k]) : k \in 1..Len(drawn)}
        unmatched == Range(obs.joinResult.mismatches)
    IN /\ \A k \in 1..Len(drawn) :
            /\ layer.kbnJoinedMetric[drawn[k]] # None
            /\ layer.kbnJoinedMetric[drawn[k]][1].term = KeyOf(drawn[k])
            /\ layer.kbnJoinedMetric[drawn[k]][1] \in Range(layer.metrics[1])
       /\ \A t \in CurrentTerms :
            /\ (t \in matchedKeys) <=> (t \in IndexKeys)
            /\ (t \in unmatched) <=> (t \notin IndexKeys)
       /\ matchedKeys \cap unmatched = {}
       /\ matchedKeys \cup unmatched = CurrentTerms

\* an inner join with a matched and an unmatched term
C7_Witness ==
  /\ AfterInnerJoin
  /\ obs.joinResult.features # <<>>
  /\ obs.joinResult.mismatches # <<>>

\* nothing of the layer is styled
Unstyled ==
  /\ \A i \in FeatureIds : layer.leafletData[i] = 0 /\ layer.leafletStyle[i] = None
  /\ layer.boundsOfData = None
  /\ layer.legendColors = None /\ layer.legendQuantizer = None
  /\ ~obs.everEmitted

\* C8 as claimed: the layer is unstyled until it is loaded, has a join field
\* and metrics and rendering is enabled, and the call that makes the last of
\* the four true leaves it styled.
C8_StyledByLastOfFourAnyCall ==
  /\ Unstyled
  /\ [][/\ (~obs.everEmitted /\ obs'.everEmitted) => AllFour'
        /\ ~obs'.everEmitted => Unstyled'
        /\ (~AllFour /\ AllFour') => obs'.emitted # None]_vars

\* C8 as amended: the layer is unstyled until it is loaded without error, has
\* a join field and metrics and rendering is enabled; a call that makes the
\* last of the four true while rendering is already enabled (load completion,
\* setJoinField, setMetrics) leaves the layer styled, with the join, which
\* was invalid, recomputed.
C8_StyledByLastOfFour ==
  /\ Unstyled
  /\ [][/\ (~obs.everEmitted /\ obs'.everEmitted) => AllFour'
        /\ ~obs'.everEmitted => Unstyled'
        /\ (~AllFour /\ AllFour' /\ layer.toRender) =>
             /\ obs'.emitted # None
             /\ ~layer.isJoinValid /\ obs'.joinRan /\ layer'.isJoinValid]_vars

\* the load completed last and styled a layer with features
C8_Witness ==
  /\ AllFour
  /\ obs.fetched # None /\ obs.emitted # None /\ obs.joinRan
  /\ obs.matched # {}
  /\ layer.boundsOfData # None

\* what the Leaflet layer shows, the data bounds and the legend
Rendered ==
  <<[i \in {j \in FeatureIds : layer.leafletData[j] > 0} |->
       <<layer.leafletData[i], layer.leafletStyle[i]>>],
    layer.boundsOfData, layer.legendColors, layer.legendQuantizer>>

\* the styled state is that of the current join field, metrics, colour ramp
\* and line weight
Reflects ==
  /\ obs.emitted # None
  /\ layer.isJoinValid
  /\ \A i \in FeatureIds :
       layer.leafletData[i] > 0 =>
         layer.leafletStyle[i] = Some(makeChoroplethStyler(layer, i))

\* C9: while rendering is disabled no call changes what is rendered, the
\* bounds or the legend, nor emits styleChanged; after enableRendering the
\* next call that changes join field, metrics, colour ramp or line weight
\* recomputes join and style.
C9_FrozenThenRecomputed ==
  [][/\ (~layer.toRender /\ ~layer'.toRender) =>
          (Rendered' = Rendered /\ obs'.emitted = None)
     /\ (obs.rearmed /\ ~obs'.rearmed /\ layer'.toRender /\ AllFour') => Reflects']_vars

\* C10: the data load resolves exactly once and never rejects; when it has
\* resolved loaded is true, and the error flag is set if and only if the
\* fetch failed or the declared format was neither geojson nor topojson.
C10_LoadResolvesOnce ==
  /\ layer.whenDataLoaded.state # "rejected"
  /\ layer.whenDataLoaded.resolves <= 1
  /\ (executor = None) <=>
       (layer.whenDataLoaded.state = "resolved" /\ layer.whenDataLoaded.resolves = 1)
  /\ layer.whenDataLoaded.state = "resolved" =>
       /\ layer.loaded
       /\ layer.error <=>
            (obs.fetched # None /\ (~obs.fetched[1].ok \/ ~obs.fetched[1].known))

\* a load whose fetch succeeded and whose format is unrecognized has resolved
C10_Witness ==
  /\ layer.whenDataLoaded.state = "resolved"
  /\ layer.error
  /\ obs.fetched # None /\ obs.fetched[1].ok /\ ~obs.fetched[1].known

\* the last call was getChoroplethColor with min < max and min <= value <= max
ColorCallInRange ==
  /\ call.fn = "getChoroplethColor"
  /\ call.min < call.max
  /\ call.min <= call.value /\ call.value <= call.max

\* r is n * (value - min) / (max - min) rounded, halves up
IsRounded(r) ==
  LET num == Len(call.colorRamp) * (call.value - call.min)
      den == call.max - call.min
  IN 2 * r * den - den <= 2 * num /\ 2 * num < 2 * r * den + den

\* C11: for min < max, a ramp of length n >= 1 and a value in [min, max],
\* the colour chosen is the ramp's colour at round(n * (v - min) / (max -
\* min)) - 1 clamped into [0, n - 1]; v = min gives index 0 and v = max
\* gives index n - 1.
C11_ColorIndexIsClampedRound ==
  ColorCallInRange =>
    LET n == Len(call.colorRamp)
    IN /\ \E r \in 0..n :
            /\ IsRounded(r)
            /\ call.result =
                 call.colorRamp[(IF r - 1 < 0 THEN 0
                                 ELSE IF r - 1 > n - 1 THEN n - 1 ELSE r - 1) + 1]
       /\ \E i \in 0..(n - 1) : call.result = call.colorRamp[i + 1]
       /\ call.value = call.min => call.result = call.colorRamp[0 + 1]
       /\ call.value = call.max => call.result = call.colorRamp[(n - 1) + 1]

\* a value halfway between two indices: 3 * 1 / 2 rounds up to 2, index 1
C11_Witness ==
  /\ ColorCallInRange
  /\ Len(call.colorRamp) = 3
  /\ 2 * (call.value - call.min) = call.max - call.min
  /\ call.result = call.colorRamp[2]

\* C12: when min equals max (getMinMax of a single row or of rows of equal
\* value gives min = max), the colour chosen for any value is the last colour
\* of the ramp.
C12_FlatRangeGivesLastColor ==
  /\ (call.fn = "getMinMax"
      /\ \A i, j \in 1..Len(call.data) : call.data[i].value = call.data[j].value)
     => call.result.min = call.result.max
  /\ (call.fn = "getChoroplethColor" /\ call.min = call.max)
     => call.result = call.colorRamp[Len(call.colorRamp)]

\* min = max, a value different from both and a ramp of several colours
C12_Witness ==
  /\ call.fn = "getChoroplethColor"
  /\ call.min = call.max /\ call.value # call.min
  /\ Len(call.colorRamp) > 1
  /\ call.result = call.colorRamp[Len(call.colorRamp)]

\* the feature index maps every join-key value (as an object key) of the
\* collection to the last feature carrying it, and has no other key
IndexIsCurrent ==
  layer.joinField # "null" =>
    \A k \in Keys :
      IF \E i \in FeatureIds : KeyOf(i) = k
      THEN /\ layer.featureDict[k] \in FeatureIds
           /\ KeyOf(layer.featureDict[k]) = k
           /\ IsLastWithKey(layer.featureDict[k])
      ELSE layer.featureDict[k] = 0

\* the step loaded a feature collection into a layer with a join field
LoadsCollection ==
  obs.fetched = None /\ obs'.fetched # None /\ ~layer'.error /\ layer'.joinField # "null"

\* C13: after every operation on a layer whose join field is set, the keys
\* of the feature index are exactly the join-key values of the current
\* collection under the current join field (as object keys), each mapped to
\* the last feature carrying it; a step that changes the join field or loads
\* a collection leaves the join invalid unless it ran the join again.
C13_IndexIsOfCollection ==
  /\ IndexIsCurrent
  /\ [][/\ IndexIsCurrent'
        /\ (layer'.joinField # layer.joinField \/ LoadsCollection) =>
             (layer'.isJoinValid => obs'.joinRan)]_vars

\* a loaded and joined layer whose collection has two features with the same
\* join-key value, indexed under the second
C13_Witness ==
  /\ layer.joinField # "null" /\ layer.loaded
  /\ obs.toast = "none" /\ obs.fetched # None /\ layer.isJoinValid
  /\ \E i, j \in FeatureIds :
       i < j /\ KeyOf(i) = KeyOf(j) /\ layer.featureDict[KeyOf(i)] = j

\* C14: with a valid join, setColorRamp and setLineWeight re-style without
\* running the join and without adding features to the Leaflet layer; after
\* setMetrics, a change of the join field or a load the join is valid only
\* if that call ran it again, and a style recompute that finds the join
\* invalid runs it.
C14_JoinRunsOnlyWhenInvalid ==
  [][/\ (layer.isJoinValid /\ (SetColorRamp \/ SetLineWeight)) =>
          (~obs'.joinRan /\ layer'.leafletData = layer.leafletData)
     /\ (layer'.isJoinValid /\ ~obs'.joinRan) =>
          ~(SetMetrics \/ layer'.joinField # layer.joinField \/ LoadsCollection)
     /\ (obs'.emitted # None /\ ~obs'.joinRan) => layer.isJoinValid]_vars

\* a re-style of rendered features that did not run the join: the colour
\* ramp or the line weight was changed on a joined layer
C14_Witness ==
  /\ obs.emitted # None /\ ~obs.joinRan
  /\ layer.isJoinValid
  /\ \E i \in FeatureIds : layer.leafletData[i] > 0
  /\ (layer.colorRamp # DefaultRamp \/ layer.lineWeight # 1)

\* what a clone step leaves when the layer after it is the clone of the
\* layer before it
ClonedFrom ==
  /\ layer'.joinField = layer.joinField
  /\ layer'.colorRamp = layer.colorRamp
  /\ layer'.lineWeight = layer.lineWeight
  /\ layer'.toRender
  /\ IF layer'.geojsonUrl = layer.geojsonUrl
     THEN /\ layer'.featureCollection = layer.featureCollection
          /\ layer'.featureDict = layer.featureDict
          /\ IF layer.featureCollection = <<>>
             THEN executor' # None /\ ~layer'.loaded
             ELSE executor' = None /\ layer'.loaded /\ obs'.fetched = None
     ELSE /\ layer'.featureCollection = <<>>
          /\ layer'.featureDict = EmptyDict
          /\ executor' # None /\ ~layer'.loaded

\* C15: a clone that returns is handed the feature collection and the index
\* of the existing layer only when its url is the existing layer's url (and
\* then fetches nothing unless the collection is empty); for another url it
\* starts with an empty collection and an empty index and fetches; either
\* way it has the join field, colour ramp and line weight of the existing
\* layer and rendering enabled.
C15_CloneReusesFeaturesOnlyForSameUrl ==
  [][obs'.cloned => ClonedFrom]_vars

\* a clone for the same url: it is loaded with features it never fetched
C15_Witness ==
  /\ obs.cloned
  /\ layer.loaded /\ ~layer.error
  /\ obs.fetched = None
  /\ layer.featureCollection # <<>>
  /\ layer.toRender

\* the metrics after the step are an empty list, on the same layer instance
EmptyMetricsStep == layer'.metrics = Some(<<>>) /\ ~obs'.cloned

\* the step adds no feature to the Leaflet layer
AddsNoFeature ==
  \A i \in 1..Len(layer'.leafletData) :
    layer'.leafletData[i] <=
      (IF i <= Len(layer.leafletData) THEN layer.leafletData[i] ELSE 0)

C17_ErrorLayerStaysEmpty ==
  [][(layer.error /\ ~obs'.cloned) =>
       /\ layer'.error
       /\ ~obs'.raised
       /\ ~obs'.joinRan
       /\ obs'.emitted = None
       /\ layer'.boundsOfData = None
       /\ layer'.featureCollection = <<>>
       /\ AddsNoFeature]_vars

\* a failed load (its toast was shown by an earlier call) followed by calls
\* that left the layer with join field, metrics, another colour ramp and
\* rendering enabled
C17_Witness ==
  /\ layer.error
  /\ obs.toast = "none"
  /\ layer.joinField # "null" /\ layer.metrics # None
  /\ layer.colorRamp # DefaultRamp
  /\ layer.toRender

\* the layer after the load completed, then setJoinField, then setMetrics
LoadFirst ==
  setMetrics(
    NextCall(setJoinField(
      NextCall(dataLoaded(Fresh(layer.showAllShapes), call.result)),
      call.joinfield)),
    call.metrics)

\* C18: with rendering enabled and a successful load, once setJoinField(f),
\* setMetrics(m) and the load completion have all happened, in whichever
\* order, the feature index, the joined metric of every feature, the
\* features in the Leaflet layer and the unmatched terms of the last
\* styleChanged are those of the order load, setJoinField, setMetrics.
C18_OrderOfFirstThreeIsImmaterial ==
  (call.fn = "interleaving" /\ Len(call.order) = 3) =>
    /\ ~obs.raised
    /\ layer.featureDict = LoadFirst.featureDict
    /\ layer.kbnJoinedMetric = LoadFirst.kbnJoinedMetric
    /\ layer.leafletData = LoadFirst.leafletData
    /\ obs.emitted # None
    /\ obs.emitted = LoadFirst.emitted

\* the load completed between setMetrics and setJoinField; the join matched
\* a feature and left a term unmatched
C18_Witness ==
  /\ call.fn = "interleaving"
  /\ call.order = <<"setMetrics", "dataLoaded", "setJoinField">>
  /\ obs.matched # {}
  /\ obs.emitted # None /\ obs.emitted[1] # <<>>

\* C19: on a styled layer the metric row the tooltip looks up for a rendered
\* feature is the feature's joined metric, and the tooltip finds no row
\* exactly when the feature has no joined metric, in inner and left-outer
\* mode, also with repeated metric terms or repeated join-key values.
C19_TooltipRowIsJoinedMetric ==
  (layer.isJoinValid /\ ~obs.raised) =>
    \A i \in FeatureIds :
      layer.leafletData[i] > 0 => tooltipMatch(layer, i) = layer.kbnJoinedMetric[i]

\* C20: wrapRequest(req) returns a request whose user.kind is
\* 'authenticated' exactly when req.headers.authorization is neither null
\* nor undefined, and then its internal auth data is req.headers; otherwise
\* the kind is 'unauthenticated' and there is no auth data; headers, info,
\* params, payload and query are those of req, and req is as it was.
C20_WrapRequestTagsByAuthorization ==
  call.fn = "wrapRequest" =>
    LET authorization == call.given.headers.authorization
        present == ~(authorization.kind = "null" \/ authorization.kind = "undefined")
    IN /\ (call.result.user.kind = "authenticated") <=> present
       /\ present => /\ DOMAIN call.result.user = {"kind", "internalAuthData"}
                     /\ call.result.user.internalAuthData = call.given.headers
       /\ ~present => /\ DOMAIN call.result.user = {"kind"}
                      /\ call.result.user.kind = "unauthenticated"
       /\ call.result.headers = call.given.headers
       /\ call.result.info = call.given.info
       /\ call.result.params = call.given.params
       /\ call.result.payload = call.given.payload
       /\ call.result.query = call.given.query
       /\ call.req = call.given

\* an empty authorization header is neither null nor undefined: authenticated
C20_Witness ==
  /\ call.fn = "wrapRequest"
  /\ call.given.headers.authorization = [kind |-> "string", text |-> ""]
  /\ call.result.user.kind = "authenticated"

====
